---------------------------- MODULE Spec2Model ----------------------------
(***************************************************************************)
(* A model of the notebook Regularization.ipynb: the data cell, the        *)
(* polynomial expansion, the train/test split, the unpenalised fit of the  *)
(* polynomial cell and the regularisation cell (Ridge, Lasso, ElasticNet   *)
(* constructed, fitted, then used for prediction).                         *)
(*                                                                         *)
(* The notebook's statements are calls of scikit-learn estimators; each    *)
(* call is modelled by what the library does at that call (parameter       *)
(* validation, input validation, centring, the coordinate-descent loop     *)
(* named in the notebook's own ConvergenceWarning output, the closed-form  *)
(* solve, the linear prediction).                                          *)
(*                                                                         *)
(* Numbers: the notebook computes in IEEE doubles.  The model computes in  *)
(* fixed point: an integer v stands for the real v / Scale, and every      *)
(* product and quotient is rounded to the nearest unit, as a floating-     *)
(* point operation rounds its exact result.                                *)
(***************************************************************************)
EXTENDS Integers, Sequences, FiniteSets, TLC

\* ------------------------------------------------------------------ bounds

\* Units per 1.0 of the fixed-point numbers.
Scale == 100

\* Number of sample points of the data cell (the notebook draws 100).
NSamples == 4

\* Largest iteration cap an estimator is given (the library default is 1000).
MaxIter == 3

\* The degree of the high-degree expansion (21 in the notebook).
HighDegree == 3

\* ------------------------------------------------- constants of the notebook

\* Degree of the polynomial expansion (cell 7; the regularisation cell of
\* the notebook uses the same expansion at degree 21).
degree == 2

\* Number of sample points the notebook draws.
n_samples == 100

\* ----------------------------------------------------- fixed-point numbers

fabs(a) == IF a < 0 THEN -a ELSE a

fsign(a) == IF a > 0 THEN 1 ELSE IF a < 0 THEN -1 ELSE 0

fmax(a, b) == IF a >= b THEN a ELSE b

\* n / d rounded to the nearest integer, halves away from zero (d > 0).
RoundDiv(n, d) == fsign(n) * ((2 * fabs(n) + d) \div (2 * d))

\* a * b
Mul(a, b) == RoundDiv(a * b, Scale)

\* a / b (b # 0)
Div(a, b) == IF b > 0 THEN RoundDiv(a * Scale, b) ELSE RoundDiv(-(a * Scale), -b)

RECURSIVE SumSeq(_)
SumSeq(s) == IF s = <<>> THEN 0 ELSE Head(s) + SumSeq(Tail(s))

RECURSIVE MaxAbs(_)
MaxAbs(s) == IF s = <<>> THEN 0 ELSE fmax(fabs(Head(s)), MaxAbs(Tail(s)))

\* np.dot of two vectors of the same length
dot(u, v) == SumSeq([i \in 1..Len(u) |-> Mul(u[i], v[i])])

\* column j of a matrix held as a sequence of rows
Column(M, j) == [i \in 1..Len(M) |-> M[i][j]]

n_rows(M) == Len(M)

n_cols(M) == IF M = <<>> THEN 0 ELSE Len(M[1])

\* np.mean
mean(v) == RoundDiv(SumSeq(v), Len(v))

\* ------------------------------------------------------------ the data cells

\* X = np.linspace(0, 5, 100).reshape(-1, 1): one column of increasing points.
linspace == [i \in 1..NSamples |-> <<(i - 1) * Scale>>]

\* The values np.random.normal can add to a target.
NoiseValues == {-(Scale \div 2), Scale \div 2}

\* y = -5*X + X**2 + noise
target(Xm, noise) == [i \in 1..Len(Xm) |->
    Mul(Xm[i][1], Xm[i][1]) - 5 * Xm[i][1] + noise[i]]

RECURSIVE power(_, _)
power(x, k) == IF k = 0 THEN Scale ELSE Mul(power(x, k - 1), x)

\* An expansion without the bias column (include_bias=False).
PolynomialFeatures_no_bias(Xm, deg) == [i \in 1..Len(Xm) |->
    [k \in 1..deg |-> power(Xm[i][1], k)]]

\* PolynomialFeatures(degree).fit_transform(X): the columns x^0 .. x^degree.
PolynomialFeatures(Xm, deg) == [i \in 1..Len(Xm) |->
    [k \in 1..(deg + 1) |-> power(Xm[i][1], k - 1)]]

\* test_size and random_state of every train_test_split call.
test_size == Scale \div 5

random_state == 0

\* The order in which a split with this random_state takes n rows: fixed by
\* n and the seed.
permutation(n, seed) == [i \in 1..n |-> ((i + seed + 1) % n) + 1]

\* ceil(test_size * n)
n_test_rows(n) == (test_size * n + Scale - 1) \div Scale

\* train_test_split(A, test_size, random_state): <<A_train, A_test>>.
train_test_split(A, seed) ==
    LET n == Len(A)
        nt == n_test_rows(n)
        perm == permutation(n, seed)
    IN  << [i \in 1..(n - nt) |-> A[perm[nt + i]]],
           [i \in 1..nt |-> A[perm[i]]] >>

\* ------------------------------------------------------------------ metrics

\* The residuals y_true - y_pred of two vectors of one length.
residuals(yt, yp) == [i \in 1..Len(yt) |-> yt[i] - yp[i]]

\* The sum of the squares of a vector.
sum_of_squares(v) == SumSeq([i \in 1..Len(v) |-> Mul(v[i], v[i])])

\* An r2_score that returns the unexplained share numerator / denominator.
r2_score_unexplained(yt, yp) ==
    IF Len(yt) # Len(yp)
    THEN [outcome |-> "ValueError", value |-> 0]
    ELSE IF Len(yt) < 2
    THEN [outcome |-> "nan", value |-> 0]
    ELSE LET numerator == sum_of_squares(residuals(yt, yp))
             denominator == sum_of_squares([i \in 1..Len(yt) |-> yt[i] - mean(yt)])
         IN  IF numerator # 0 /\ denominator # 0
             THEN [outcome |-> "value", value |-> Div(numerator, denominator)]
             ELSE IF numerator # 0
             THEN [outcome |-> "value", value |-> Scale]
             ELSE [outcome |-> "value", value |-> 0]

\* An r2_score that leaves the quotient as it is when the denominator is not
\* zero and answers nan when it is.
r2_score_not_finite(yt, yp) ==
    IF Len(yt) # Len(yp)
    THEN [outcome |-> "ValueError", value |-> 0]
    ELSE IF Len(yt) < 2
    THEN [outcome |-> "nan", value |-> 0]
    ELSE LET numerator == sum_of_squares(residuals(yt, yp))
             denominator == sum_of_squares([i \in 1..Len(yt) |-> yt[i] - mean(yt)])
         IN  IF denominator # 0
             THEN [outcome |-> "value", value |-> Scale - Div(numerator, denominator)]
             ELSE [outcome |-> "nan", value |-> 0]

\* r2_score(y_true, y_pred): vectors of different lengths are rejected; with
\* fewer than two samples the score is nan (with a warning); otherwise it is
\* 1 - numerator / denominator, and with a zero denominator the finite
\* stand-ins 1 (numerator zero) or 0 (force_finite is left at its default).
r2_score(yt, yp) ==
    IF Len(yt) # Len(yp)
    THEN [outcome |-> "ValueError", value |-> 0]
    ELSE IF Len(yt) < 2
    THEN [outcome |-> "nan", value |-> 0]
    ELSE LET numerator == sum_of_squares(residuals(yt, yp))
             denominator == sum_of_squares([i \in 1..Len(yt) |-> yt[i] - mean(yt)])
         IN  IF numerator # 0 /\ denominator # 0
             THEN [outcome |-> "value", value |-> Scale - Div(numerator, denominator)]
             ELSE IF numerator # 0
             THEN [outcome |-> "value", value |-> 0]
             ELSE [outcome |-> "value", value |-> Scale]

\* mean_squared_error(y_true, y_pred)
mean_squared_error(yt, yp) ==
    IF Len(yt) # Len(yp)
    THEN [outcome |-> "ValueError", value |-> 0]
    ELSE [outcome |-> "value",
          value |-> RoundDiv(sum_of_squares(residuals(yt, yp)), Len(yt))]

\* ---------------------------------------------------------- the estimators

NoCoef == <<>>

\* An estimator object as its constructor leaves it: parameters stored, not
\* validated, nothing fitted.
Estimator(kind, alpha, l1_ratio, tol, max_iter) ==
    [kind |-> kind, alpha |-> alpha, l1_ratio |-> l1_ratio, tol |-> tol,
     max_iter |-> max_iter, copy_X |-> TRUE, fitted |-> FALSE,
     coef_ |-> NoCoef, intercept_ |-> 0, n_iter_ |-> 0, dual_gap_ |-> 0]

\* A name of the notebook not bound yet.
Unbound == [kind |-> "unbound", alpha |-> 0, l1_ratio |-> 0, tol |-> 0,
            max_iter |-> 0, copy_X |-> TRUE, fitted |-> FALSE,
            coef_ |-> NoCoef, intercept_ |-> 0, n_iter_ |-> 0, dual_gap_ |-> 0]

\* LinearRegression(): no penalty, no tolerance, no iteration cap.
LinearRegression == Estimator("LinearRegression", 0, 0, 0, 0)

\* Ridge(alpha=alpha_ridge): solved in closed form, so its tol and max_iter
\* play no part and are not modelled.
Ridge(alpha) == Estimator("Ridge", alpha, 0, 0, 0)

\* A Lasso that splits its penalty evenly between L1 and L2.
Lasso_half_l1(alpha, tol, max_iter) ==
    Estimator("Lasso", alpha, Scale \div 2, tol, max_iter)

\* Lasso(alpha=alpha_lasso): the elastic net with l1_ratio fixed at 1.0.
Lasso(alpha, tol, max_iter) == Estimator("Lasso", alpha, Scale, tol, max_iter)

\* ElasticNet(alpha=alpha_elasticnet, l1_ratio=l1_ratio_elasticnet)
ElasticNet(alpha, l1_ratio, tol, max_iter) ==
    Estimator("ElasticNet", alpha, l1_ratio, tol, max_iter)

IsCoordinateDescent(est) == est.kind \in {"Lasso", "ElasticNet"}

\* A validation that lets a negative alpha through.
valid_params_any_alpha(est) ==
    CASE est.kind = "LinearRegression" -> TRUE
      [] est.kind = "Ridge" -> TRUE
      [] OTHER -> /\ est.l1_ratio >= 0 /\ est.l1_ratio <= Scale
                  /\ est.tol >= 0
                  /\ est.max_iter >= 1

\* The parameter constraints an estimator checks when fit is entered.
valid_params(est) ==
    CASE est.kind = "LinearRegression" -> TRUE
      [] est.kind = "Ridge" -> est.alpha >= 0
      [] OTHER -> /\ est.alpha >= 0
                  /\ est.l1_ratio >= 0 /\ est.l1_ratio <= Scale
                  /\ est.tol >= 0
                  /\ est.max_iter >= 1

\* An input check that cuts X and y to their common length.
check_X_y_truncating(Xa, ya) ==
    LET n == IF n_rows(Xa) <= Len(ya) THEN n_rows(Xa) ELSE Len(ya)
    IN  [ok |-> TRUE, X |-> SubSeq(Xa, 1, n), y |-> SubSeq(ya, 1, n)]

\* check_X_y: X and y must have the same number of rows; the arrays are
\* handed on as they came.
check_X_y(Xa, ya) == [ok |-> n_rows(Xa) = Len(ya), X |-> Xa, y |-> ya]

\* A check that only refuses an X_new with too many columns.
check_n_features_at_most(est, Xn) == n_cols(Xn) <= Len(est.coef_)

\* predict's check of X_new: as many columns as the model has coefficients.
check_n_features(est, Xn) == n_cols(Xn) = Len(est.coef_)

\* Column means of X (X_offset).
column_means(Xa) == [j \in 1..n_cols(Xa) |-> mean(Column(Xa, j))]

\* X - X_offset
center_X(Xa) ==
    LET off == column_means(Xa)
    IN  [i \in 1..n_rows(Xa) |-> [j \in 1..n_cols(Xa) |-> Xa[i][j] - off[j]]]

\* y - y_offset
center_y(ya) == LET off == mean(ya) IN [i \in 1..Len(ya) |-> ya[i] - off]

\* A fit that centres the caller's array itself.
array_centred_in_place(Xa, copy_X) == center_X(Xa)

\* What the caller's array holds once fit has centred its input: the library
\* centres a copy when copy_X is set, the array itself otherwise.
array_after_fit(Xa, copy_X) == IF copy_X THEN Xa ELSE center_X(Xa)

\* intercept_ = y_offset - X_offset . coef_
set_intercept(X_offset, y_offset, coef) == y_offset - dot(X_offset, coef)

\* A prediction that leaves the intercept out.
decision_function_no_intercept(est, Xn) ==
    [i \in 1..n_rows(Xn) |-> dot(Xn[i], est.coef_)]

\* predict: X_new . coef_ + intercept_, one entry per row of X_new.
decision_function(est, Xn) ==
    [i \in 1..n_rows(Xn) |-> dot(Xn[i], est.coef_) + est.intercept_]

\* ------------------------------------------------- the closed-form solvers

\* The columns of a centred matrix that are not constant (a constant column,
\* such as the bias column of the expansion, centres to zero).
active_columns(Xc) == {j \in 1..n_cols(Xc) : dot(Column(Xc, j), Column(Xc, j)) # 0}

\* A solver that reads alpha as an inverse strength: the penalty on the
\* diagonal is 1/alpha.
solve_inverse_strength(Xc, yc, alpha) ==
    LET act == active_columns(Xc)
        penalty == IF alpha = 0 THEN 0 ELSE Div(Scale, alpha)
        G(j, k) == dot(Column(Xc, j), Column(Xc, k)) + (IF j = k THEN penalty ELSE 0)
        b(j) == dot(Column(Xc, j), yc)
        j1 == CHOOSE j \in act : \A k \in act : j <= k
        j2 == CHOOSE j \in act : \A k \in act : k <= j
        det == Mul(G(j1, j1), G(j2, j2)) - Mul(G(j1, j2), G(j1, j2))
    IN  [j \in 1..n_cols(Xc) |->
            IF j \notin act THEN 0
            ELSE IF Cardinality(act) = 1 THEN Div(b(j), G(j, j))
            ELSE IF det = 0 THEN 0
            ELSE IF j = j1
                 THEN Div(Mul(b(j1), G(j2, j2)) - Mul(b(j2), G(j1, j2)), det)
                 ELSE Div(Mul(G(j1, j1), b(j2)) - Mul(G(j1, j2), b(j1)), det)]

\* The solution of (Xc'Xc + alpha*I) w = Xc'yc.  A zero column has the
\* coefficient 0; the system of the other columns (at most two at this
\* degree) is solved directly.
solve_normal_equations(Xc, yc, alpha) ==
    LET act == active_columns(Xc)
        G(j, k) == dot(Column(Xc, j), Column(Xc, k)) + (IF j = k THEN alpha ELSE 0)
        b(j) == dot(Column(Xc, j), yc)
        j1 == CHOOSE j \in act : \A k \in act : j <= k
        j2 == CHOOSE j \in act : \A k \in act : k <= j
        det == Mul(G(j1, j1), G(j2, j2)) - Mul(G(j1, j2), G(j1, j2))
    IN  [j \in 1..n_cols(Xc) |->
            IF j \notin act THEN 0
            ELSE IF Cardinality(act) = 1 THEN Div(b(j), G(j, j))
            ELSE IF det = 0 THEN 0
            ELSE IF j = j1
                 THEN Div(Mul(b(j1), G(j2, j2)) - Mul(b(j2), G(j1, j2)), det)
                 ELSE Div(Mul(G(j1, j1), b(j2)) - Mul(G(j1, j2), b(j1)), det)]

\* LinearRegression.fit and Ridge.fit on validated input: centre, solve, set
\* the intercept.
fit_closed_form(est, Xa, ya) ==
    LET coef == solve_normal_equations(center_X(Xa), center_y(ya), est.alpha)
    IN  [est EXCEPT !.fitted = TRUE, !.coef_ = coef,
                    !.intercept_ = set_intercept(column_means(Xa), mean(ya), coef)]

\* ------------------------------------------------------ coordinate descent

\* No coordinate descent is running.
Idle == [running |-> FALSE, model |-> "", X |-> <<>>, y |-> <<>>,
         X_offset |-> <<>>, y_offset |-> 0, w |-> <<>>,
         R |-> <<>>, norm_cols_X |-> <<>>, alpha |-> 0, beta |-> 0,
         tol |-> 0, d_w_tol |-> 0, max_iter |-> 0, n_iter |-> 0, ii |-> 0,
         w_max |-> 0, d_w_max |-> 0, gap |-> 0]

\* R + a * col
axpy(R, a, col) == [i \in 1..Len(R) |-> R[i] + Mul(a, col[i])]

\* The state enet_coordinate_descent starts from: centred copies of X and y,
\* w = 0, R = y, the penalties scaled by the number of rows, the tolerance
\* scaled by y.y, the gap above the tolerance.
cd_start(name, est, Xa, ya) ==
    LET Xc == center_X(Xa)
        yc == center_y(ya)
        n == n_rows(Xa)
        tol == Mul(est.tol, dot(yc, yc))
    IN  [running |-> TRUE, model |-> name, X |-> Xc, y |-> yc,
         X_offset |-> column_means(Xa), y_offset |-> mean(ya),
         w |-> [j \in 1..n_cols(Xa) |-> 0], R |-> yc,
         norm_cols_X |-> [j \in 1..n_cols(Xa) |-> dot(Column(Xc, j), Column(Xc, j))],
         alpha |-> Mul(est.alpha, est.l1_ratio) * n,
         beta |-> Mul(est.alpha, Scale - est.l1_ratio) * n,
         tol |-> tol, d_w_tol |-> est.tol, max_iter |-> est.max_iter,
         n_iter |-> 0, ii |-> 1, w_max |-> 0, d_w_max |-> 0, gap |-> tol + Scale]

\* A coordinate update that does not threshold: the plain least-squares
\* value of the coordinate.
soft_threshold_none(tmp, alpha, denom) == Div(tmp, denom)

\* The soft-thresholded value of coordinate ii given the residual without
\* that coordinate's contribution.
soft_threshold(tmp, alpha, denom) == Div(fsign(tmp) * fmax(fabs(tmp) - alpha, 0), denom)

\* A coordinate update that reads the residual of the start of the pass: the
\* residual is not brought up to date with the coordinate written.
cd_coordinate_from_snapshot(c) ==
    LET ii == c.ii
        col == Column(c.X, ii)
        w_ii == c.w[ii]
        R1 == IF w_ii # 0 THEN axpy(c.R, w_ii, col) ELSE c.R
        tmp == dot(col, R1)
        w_new == soft_threshold(tmp, c.alpha, c.norm_cols_X[ii] + c.beta)
    IN  IF c.norm_cols_X[ii] = 0
        THEN [c EXCEPT !.ii = ii + 1]
        ELSE [c EXCEPT !.ii = ii + 1, !.w[ii] = w_new,
                       !.d_w_max = fmax(c.d_w_max, fabs(w_new - w_ii)),
                       !.w_max = fmax(c.w_max, fabs(w_new))]

\* One coordinate of a pass: skip a zero column; otherwise take the
\* coordinate's contribution out of the residual, set the coordinate to its
\* soft-thresholded value, put the new contribution back, and track the
\* largest change and the largest coefficient of the pass.
cd_coordinate(c) ==
    LET ii == c.ii
        col == Column(c.X, ii)
        w_ii == c.w[ii]
        R1 == IF w_ii # 0 THEN axpy(c.R, w_ii, col) ELSE c.R
        tmp == dot(col, R1)
        w_new == soft_threshold(tmp, c.alpha, c.norm_cols_X[ii] + c.beta)
        R2 == IF w_new # 0 THEN axpy(R1, -w_new, col) ELSE R1
    IN  IF c.norm_cols_X[ii] = 0
        THEN [c EXCEPT !.ii = ii + 1]
        ELSE [c EXCEPT !.ii = ii + 1, !.w[ii] = w_new, !.R = R2,
                       !.d_w_max = fmax(c.d_w_max, fabs(w_new - w_ii)),
                       !.w_max = fmax(c.w_max, fabs(w_new))]

\* Whether the duality gap is computed after this pass: all coefficients
\* zero, or the largest change small relative to the largest coefficient, or
\* the pass is the last one allowed.
gap_is_checked(c) ==
    \/ c.w_max = 0
    \/ Div(c.d_w_max, c.w_max) < c.d_w_tol
    \/ c.n_iter = c.max_iter - 1

\* The duality gap of the current iterate.
duality_gap(c) ==
    LET XtA == [j \in 1..Len(c.w) |-> dot(Column(c.X, j), c.R) - Mul(c.beta, c.w[j])]
        dual_norm_XtA == MaxAbs(XtA)
        R_norm2 == dot(c.R, c.R)
        w_norm2 == dot(c.w, c.w)
        const == IF dual_norm_XtA > c.alpha THEN Div(c.alpha, dual_norm_XtA) ELSE Scale
        A_norm2 == Mul(R_norm2, Mul(const, const))
        gap0 == IF dual_norm_XtA > c.alpha
                THEN RoundDiv(R_norm2 + A_norm2, 2)
                ELSE R_norm2
        l1_norm == SumSeq([j \in 1..Len(c.w) |-> fabs(c.w[j])])
    IN  gap0 + Mul(c.alpha, l1_norm) - Mul(const, dot(c.R, c.y))
             + RoundDiv(Mul(Mul(c.beta, Scale + Mul(const, const)), w_norm2), 2)

\* The gap after the pass: recomputed when checked, kept otherwise.
gap_after_pass(c) == IF gap_is_checked(c) THEN duality_gap(c) ELSE c.gap

\* The loop breaks after this pass: the gap was checked and is below the
\* tolerance.
cd_converged(c) == gap_is_checked(c) /\ duality_gap(c) < c.tol

\* The loop state at the start of the next pass.
cd_next_pass(c) == [c EXCEPT !.n_iter = @ + 1, !.ii = 1, !.w_max = 0,
                             !.d_w_max = 0, !.gap = gap_after_pass(c)]

\* A cap that lets one pass more through.
cd_exhausted_late(c) == ~cd_converged(c) /\ c.n_iter = c.max_iter

\* A loop reported unconverged whenever it ran its last pass.
cd_exhausted_at_cap(c) == c.n_iter = c.max_iter - 1

\* The loop ran its last pass without breaking.
cd_exhausted(c) == ~cd_converged(c) /\ c.n_iter = c.max_iter - 1

\* A fit that keeps the coefficients only of a loop that converged.
fit_unless_exhausted(est, c) ==
    IF cd_converged(c)
    THEN [est EXCEPT !.fitted = TRUE, !.coef_ = c.w,
                     !.intercept_ = set_intercept(c.X_offset, c.y_offset, c.w),
                     !.n_iter_ = c.n_iter + 1]
    ELSE est

\* The estimator once the loop has ended after the current pass.
fit_coordinate_descent(est, c) ==
    [est EXCEPT !.fitted = TRUE, !.coef_ = c.w,
                !.intercept_ = set_intercept(c.X_offset, c.y_offset, c.w),
                !.n_iter_ = c.n_iter + 1,
                !.dual_gap_ = RoundDiv(gap_after_pass(c), n_rows(c.X))]

\* ---------------------------------------------------------------- the state

VARIABLES
    X,                \* the sample points of the data cell
    y,                \* their targets
    X_train,          \* the training rows of X
    X_test,           \* the held-out rows of X
    X_poly_train,     \* the training rows of the expansion
    X_poly_test,      \* its held-out rows
    X_poly_high_degree_train, \* the training rows of the high-degree expansion
    X_poly_high_degree_test,  \* its held-out rows
    y_train,          \* the training targets
    y_test,           \* the held-out targets
    default_tol,      \* tol of the coordinate-descent estimators
    default_max_iter, \* their max_iter
    models,           \* the estimator bound to each model name
    pc,               \* the statement that runs next
    cd,               \* the coordinate descent in progress
    y_pred,           \* the last prediction made
    raised,           \* the exception that ended the run, "" when none
    warnings,         \* the warnings issued so far, <<model, category>>
    call,             \* the fit or predict call entered last
    work,             \* what the fit call entered last has computed
    iterates,         \* the coefficient vectors each model's loop went through
    score,            \* the result of the scoring call made last
    running_fits      \* the coordinate descent of each fit running as a thread

data == <<X, y, X_train, X_test, X_poly_train, X_poly_test,
          X_poly_high_degree_train, X_poly_high_degree_test, y_train, y_test>>

defaults == <<default_tol, default_max_iter>>

vars == <<X, y, X_train, X_test, X_poly_train, X_poly_test,
          X_poly_high_degree_train, X_poly_high_degree_test, y_train, y_test,
          default_tol, default_max_iter, models, pc, cd, y_pred, raised,
          warnings, call, work, iterates, score, running_fits>>

ModelNames == {"poly_model", "ridge_model", "lasso_model", "elasticnet_model"}

\* The regularisation strengths and mixing weights a constructor is given.
AlphaValues == {-(Scale \div 2), 0, Scale \div 2}

L1RatioValues == {0, Scale \div 2, Scale, Scale + Scale \div 2}

\* Strengths large enough to outweigh every correlation of a column with y.
LargeAlphaValues == {10 * Scale, 100 * Scale}

\* A weak and a strong valid alpha_ridge.
RidgeAlphaValues == {Scale \div 2, 100 * Scale}

\* The tolerances and iteration caps the coordinate-descent estimators get.
TolValues == {-(Scale \div 10), 0, Scale \div 10, Scale \div 2}

MaxIterValues == 0..MaxIter

\* The targets a fit call is given, the matrices a predict call is given.
FitTargets == {"y_train", "y_test"}

PredictInputs == {"X_poly_train", "X_poly_test", "X_test"}

NoCall == [op |-> "", model |-> "", arg |-> ""]

\* Nothing computed yet: no coordinate updated, no pass completed, no system
\* solved.  d_w_max, gap and tol are those of the last completed pass;
\* below_tol tells whether some pass changed every coefficient by less than
\* the estimator's tol.
NoWork == [updates |-> 0, passes |-> 0, solves |-> 0, d_w_max |-> 0,
           below_tol |-> FALSE, gap |-> 0, tol |-> 0]

NoPrediction == [model |-> "", X |-> "", values |-> <<>>]

\* The models whose fits run as threads, and no such fit running.
ConcurrentModels == {"lasso_model", "elasticnet_model"}

NoFits == [name \in ConcurrentModels |-> Idle]

\* No scoring call has been made.
NoScore == [metric |-> "", y_true |-> "", outcome |-> "", value |-> 0]

\* The array a name of the notebook refers to.
Array(name) ==
    CASE name = "X_poly_train" -> X_poly_train
      [] name = "X_poly_test" -> X_poly_test
      [] name = "X_test" -> X_test
      [] name = "y_train" -> y_train
      [] name = "y_test" -> y_test

\* The state once the data cell, the expansion and the split have run.
Init ==
    /\ X = linspace
    /\ \E noise \in [1..NSamples -> NoiseValues] : y = target(linspace, noise)
    /\ X_train = train_test_split(X, random_state)[1]
    /\ X_test = train_test_split(X, random_state)[2]
    /\ X_poly_train = train_test_split(PolynomialFeatures(X, degree), random_state)[1]
    /\ X_poly_test = train_test_split(PolynomialFeatures(X, degree), random_state)[2]
    /\ X_poly_high_degree_train =
          train_test_split(PolynomialFeatures(X, HighDegree), random_state)[1]
    /\ X_poly_high_degree_test =
          train_test_split(PolynomialFeatures(X, HighDegree), random_state)[2]
    /\ y_train = train_test_split(y, random_state)[1]
    /\ y_test = train_test_split(y, random_state)[2]
    /\ default_tol \in TolValues
    /\ default_max_iter \in MaxIterValues
    /\ models = [name \in ModelNames |-> Unbound]
    /\ pc = "poly_ctor"
    /\ cd = Idle
    /\ y_pred = NoPrediction
    /\ raised = ""
    /\ warnings = {}
    /\ call = NoCall
    /\ work = NoWork
    /\ iterates = [name \in ModelNames |-> <<>>]
    /\ score = NoScore
    /\ running_fits = NoFits

\* ------------------------------------------------------------- the statements

\* The statement that calls fit on a model, and the one after it.
fit_statement(name) ==
    CASE name = "poly_model" -> "poly_fit"
      [] name = "ridge_model" -> "ridge_fit"
      [] name = "lasso_model" -> "lasso_fit"
      [] name = "elasticnet_model" -> "enet_fit"

after_fit(name) ==
    CASE name = "poly_model" -> "poly_predict_train"
      [] name = "ridge_model" -> "lasso_ctor"
      [] name = "lasso_model" -> "enet_ctor"
      [] name = "elasticnet_model" -> "predict"

\* An exception leaves the cell: nothing after the raising statement runs.
raise(exc) == /\ raised' = exc
              /\ pc' = "raised"

\* poly_model = LinearRegression()
construct_poly_model ==
    /\ pc = "poly_ctor"
    /\ models' = [models EXCEPT !["poly_model"] = LinearRegression]
    /\ pc' = "poly_fit"
    /\ UNCHANGED <<data, defaults, score, running_fits, cd, y_pred, raised, warnings, call, work,
                   iterates>>

\* ridge_model = Ridge(alpha=alpha_ridge), alpha_ridge being one of alphas
construct_ridge(alphas) ==
    /\ pc = "ridge_ctor"
    /\ \E alpha_ridge \in alphas :
          models' = [models EXCEPT !["ridge_model"] = Ridge(alpha_ridge)]
    /\ pc' = "ridge_fit"
    /\ UNCHANGED <<data, defaults, score, running_fits, cd, y_pred, raised, warnings, call, work,
                   iterates>>

construct_ridge_model == construct_ridge(AlphaValues)

\* The same statement with alpha_ridge weak or strong.
construct_strong_ridge_model == construct_ridge(RidgeAlphaValues)

\* lasso_model = Lasso(alpha=alpha_lasso), alpha_lasso being one of alphas
construct_lasso(alphas) ==
    /\ pc = "lasso_ctor"
    /\ \E alpha_lasso \in alphas :
          models' = [models EXCEPT !["lasso_model"] =
                        Lasso(alpha_lasso, default_tol, default_max_iter)]
    /\ pc' = "lasso_fit"
    /\ UNCHANGED <<data, defaults, score, running_fits, cd, y_pred, raised, warnings, call, work,
                   iterates>>

construct_lasso_model == construct_lasso(AlphaValues)

\* The same statement with a strong penalty.
construct_strong_lasso_model == construct_lasso(LargeAlphaValues)

\* elasticnet_model = ElasticNet(alpha=alpha_elasticnet, l1_ratio=l1_ratio_elasticnet)
construct_elasticnet_model ==
    /\ pc = "enet_ctor"
    /\ \E alpha_elasticnet \in AlphaValues, l1_ratio_elasticnet \in L1RatioValues :
          models' = [models EXCEPT !["elasticnet_model"] =
                        ElasticNet(alpha_elasticnet, l1_ratio_elasticnet,
                                   default_tol, default_max_iter)]
    /\ pc' = "enet_fit"
    /\ UNCHANGED <<data, defaults, score, running_fits, cd, y_pred, raised, warnings, call, work,
                   iterates>>

\* The warning fit issues for a coordinate-descent estimator with alpha = 0.
alpha_zero_warning(name, est) ==
    IF IsCoordinateDescent(est) /\ est.alpha = 0
    THEN {<<name, "UserWarning">>} ELSE {}

\* model.fit(X_poly_train, yn): the parameters are validated, then the
\* input; a closed-form estimator is solved at once, a coordinate-descent
\* estimator enters its loop.
fit(name, yn) ==
    LET est == models[name]
        checked == check_X_y(X_poly_train, Array(yn))
    IN  /\ pc = fit_statement(name)
        /\ call' = [op |-> "fit", model |-> name, arg |-> yn]
        /\ UNCHANGED iterates
        /\ IF ~valid_params(est)
           THEN /\ raise("InvalidParameterError")
                /\ work' = NoWork
                /\ UNCHANGED <<data, defaults, score, running_fits, models, cd, y_pred, warnings>>
           ELSE IF ~checked.ok
           THEN /\ raise("ValueError")
                /\ work' = NoWork
                /\ warnings' = warnings \cup alpha_zero_warning(name, est)
                /\ UNCHANGED <<data, defaults, score, running_fits, models, cd, y_pred>>
           ELSE IF IsCoordinateDescent(est)
           THEN /\ cd' = cd_start(name, est, checked.X, checked.y)
                /\ X_poly_train' = array_after_fit(X_poly_train, est.copy_X)
                /\ pc' = "cd"
                /\ work' = NoWork
                /\ warnings' = warnings \cup alpha_zero_warning(name, est)
                /\ UNCHANGED <<X, y, X_train, X_test, X_poly_test, X_poly_high_degree_train,
                               X_poly_high_degree_test, y_train, y_test,
                               defaults, score, running_fits, models, y_pred, raised>>
           ELSE /\ models' = [models EXCEPT ![name] =
                                 fit_closed_form(est, checked.X, checked.y)]
                /\ X_poly_train' = array_after_fit(X_poly_train, est.copy_X)
                /\ work' = [NoWork EXCEPT !.solves = 1]
                /\ pc' = after_fit(name)
                /\ UNCHANGED <<X, y, X_train, X_test, X_poly_test, X_poly_high_degree_train,
                               X_poly_high_degree_test, y_train, y_test,
                               defaults, score, running_fits, cd, y_pred, raised, warnings>>

\* One coordinate of the running pass.
coordinate_update ==
    /\ pc = "cd"
    /\ cd.ii <= Len(cd.w)
    /\ cd' = cd_coordinate(cd)
    /\ work' = [work EXCEPT !.updates = @ + 1]
    /\ iterates' = [iterates EXCEPT ![cd.model] = Append(@, cd_coordinate(cd).w)]
    /\ UNCHANGED <<data, defaults, score, running_fits, models, pc, y_pred, raised, warnings, call>>

\* The end of a pass: the loop breaks when the gap was checked and is below
\* the tolerance; after the last pass allowed it ends with a
\* ConvergenceWarning; in both cases fit stores the coefficients and returns.
\* Otherwise the next pass starts.
end_of_pass ==
    /\ pc = "cd"
    /\ cd.ii > Len(cd.w)
    /\ work' = [work EXCEPT !.passes = @ + 1, !.d_w_max = cd.d_w_max,
                            !.below_tol = @ \/ cd.d_w_max < cd.d_w_tol,
                            !.gap = gap_after_pass(cd), !.tol = cd.tol]
    /\ IF cd_converged(cd) \/ cd_exhausted(cd)
       THEN /\ models' = [models EXCEPT ![cd.model] =
                             fit_coordinate_descent(models[cd.model], cd)]
            /\ warnings' = warnings \cup
                   (IF cd_exhausted(cd)
                    THEN {<<cd.model, "ConvergenceWarning">>} ELSE {})
            /\ cd' = Idle
            /\ pc' = after_fit(cd.model)
       ELSE /\ cd' = cd_next_pass(cd)
            /\ UNCHANGED <<models, warnings, pc>>
    /\ UNCHANGED <<data, defaults, score, running_fits, y_pred, raised, call, iterates>>

\* A predict that clears the model's intercept once it has used it.
predict_clearing_intercept(name, xn, next) ==
    LET est == models[name]
        Xn == Array(xn)
    IN  /\ est.fitted
        /\ call' = [op |-> "predict", model |-> name, arg |-> xn]
        /\ IF ~check_n_features(est, Xn)
           THEN /\ raise("ValueError")
                /\ UNCHANGED <<y_pred, models>>
           ELSE /\ y_pred' = [model |-> name, X |-> xn,
                              values |-> decision_function(est, Xn)]
                /\ models' = [models EXCEPT ![name].intercept_ = 0]
                /\ pc' = next
                /\ UNCHANGED raised
        /\ UNCHANGED <<data, defaults, score, running_fits, cd, warnings, work, iterates>>

\* model.predict(Xn): the column count is checked against the coefficients,
\* then the linear prediction is returned and the statement `next` follows.
predict(name, xn, next) ==
    LET est == models[name]
        Xn == Array(xn)
    IN  /\ est.fitted
        /\ call' = [op |-> "predict", model |-> name, arg |-> xn]
        /\ IF ~check_n_features(est, Xn)
           THEN /\ raise("ValueError")
                /\ UNCHANGED y_pred
           ELSE /\ y_pred' = [model |-> name, X |-> xn,
                              values |-> decision_function(est, Xn)]
                /\ pc' = next
                /\ UNCHANGED raised
        /\ UNCHANGED <<data, defaults, score, running_fits, models, cd, warnings, work, iterates>>

\* y_train_pred_poly = poly_model.predict(X_poly_train)
predict_poly_train ==
    /\ pc = "poly_predict_train"
    /\ predict("poly_model", "X_poly_train", "poly_predict_test")

\* y_test_pred_poly = poly_model.predict(X_poly_test)
predict_poly_test ==
    /\ pc = "poly_predict_test"
    /\ predict("poly_model", "X_poly_test", "ridge_ctor")

\* The predictions of the regularisation cell, on any model and any matrix
\* of the notebook.
predict_regularized ==
    /\ pc = "predict"
    /\ \E name \in ModelNames, xn \in PredictInputs : predict(name, xn, "predict")

Next ==
    \/ construct_poly_model
    \/ construct_ridge_model
    \/ construct_lasso_model
    \/ construct_elasticnet_model
    \/ \E name \in ModelNames, yn \in FitTargets : fit(name, yn)
    \/ coordinate_update
    \/ end_of_pass
    \/ predict_poly_train
    \/ predict_poly_test
    \/ predict_regularized

Spec == Init /\ [][Next]_vars

\* The notebook with alpha_ridge and alpha_lasso set to strong penalties.
NextStrongPenalty ==
    \/ construct_poly_model
    \/ construct_strong_ridge_model
    \/ construct_strong_lasso_model
    \/ construct_elasticnet_model
    \/ \E name \in ModelNames, yn \in FitTargets : fit(name, yn)
    \/ coordinate_update
    \/ end_of_pass
    \/ predict_poly_train
    \/ predict_poly_test
    \/ predict_regularized

StrongPenaltySpec == Init /\ [][NextStrongPenalty]_vars

\* ------------------------------------------------- the scoring statements

\* The values a target or a prediction is made of when scores are examined:
\* zero, a small and a large one.
ScoreValues == {0, Scale \div 10, 3 * Scale}

\* The vectors of 1 .. n such values.
ScoreVectors(n) == UNION {[1..k -> ScoreValues] : k \in 1..n}

\* The scoring statements are reached with any training target, any held-out
\* target (one row at these sizes) and any prediction; the arrays and models
\* that scoring does not read are left empty.
ScoreInit ==
    /\ X = <<>>
    /\ y = <<>>
    /\ X_train = <<>>
    /\ X_test = <<>>
    /\ X_poly_high_degree_train = <<>>
    /\ X_poly_high_degree_test = <<>>
    /\ X_poly_train = <<>>
    /\ X_poly_test = <<>>
    /\ y_train \in ScoreVectors(NSamples - n_test_rows(NSamples))
    /\ y_test \in ScoreVectors(n_test_rows(NSamples))
    /\ \E values \in ScoreVectors(NSamples - n_test_rows(NSamples)) :
          y_pred = [NoPrediction EXCEPT !.values = values]
    /\ default_tol = 0
    /\ default_max_iter = 0
    /\ models = [name \in ModelNames |-> Unbound]
    /\ pc = "score"
    /\ cd = Idle
    /\ raised = ""
    /\ warnings = {}
    /\ call = NoCall
    /\ work = NoWork
    /\ iterates = [name \in ModelNames |-> <<>>]
    /\ score = NoScore
    /\ running_fits = NoFits

\* The result of metric(yn, the last prediction).
metric_result(metric, yn) ==
    IF metric = "r2_score"
    THEN r2_score(Array(yn), y_pred.values)
    ELSE mean_squared_error(Array(yn), y_pred.values)

\* linear_r2_train = r2_score(y_train, y_train_pred) and the like: the score
\* is stored; a nan comes with an UndefinedMetricWarning, a length mismatch
\* raises.
score_statement(metric, yn) ==
    LET result == metric_result(metric, yn)
    IN  /\ score' = [metric |-> metric, y_true |-> yn,
                     outcome |-> result.outcome, value |-> result.value]
        /\ warnings' = warnings \cup
               (IF result.outcome = "nan"
                THEN {<<metric, "UndefinedMetricWarning">>} ELSE {})
        /\ IF result.outcome = "ValueError"
           THEN raise("ValueError")
           ELSE UNCHANGED <<pc, raised>>
        /\ UNCHANGED <<data, defaults, running_fits, models, cd, y_pred, call,
                       work, iterates>>

\* ..._r2_... = r2_score(yn, ...)
r2_statement ==
    /\ pc = "score"
    /\ \E yn \in FitTargets : score_statement("r2_score", yn)

\* ..._mse_... = mean_squared_error(yn, ...)
mse_statement ==
    /\ pc = "score"
    /\ \E yn \in FitTargets : score_statement("mean_squared_error", yn)

NextScore ==
    \/ r2_statement
    \/ mse_statement

ScoreSpec == ScoreInit /\ [][NextScore]_vars

\* ------------------------------------------- the pipeline on a polynomial

\* The sample points 0, 1, 2, 3, 4.
sample_points == [i \in 1..5 |-> <<(i - 1) * Scale>>]

\* The coefficients a polynomial a + b*x + c*x**2 is made of.
PolynomialCoefficients == {-Scale, 0, Scale}

\* y = a + b*X + c*X**2, without noise
polynomial(Xm, a, b, c) == [i \in 1..Len(Xm) |->
    a + Mul(b, Xm[i][1]) + Mul(c, Mul(Xm[i][1], Xm[i][1]))]

\* The polynomial cell is reached with the targets of an exact polynomial of
\* degree 2 or less on the sample points; every row is a training row.
ExactInit ==
    /\ X = sample_points
    /\ \E a \in PolynomialCoefficients, b \in PolynomialCoefficients,
          c \in PolynomialCoefficients : y = polynomial(X, a, b, c)
    /\ X_train = <<>>
    /\ X_test = <<>>
    /\ X_poly_high_degree_train = <<>>
    /\ X_poly_high_degree_test = <<>>
    /\ X_poly_train = PolynomialFeatures(X, degree)
    /\ X_poly_test = <<>>
    /\ y_train = y
    /\ y_test = <<>>
    /\ default_tol = 0
    /\ default_max_iter = 0
    /\ models = [name \in ModelNames |-> Unbound]
    /\ pc = "poly_ctor"
    /\ cd = Idle
    /\ y_pred = NoPrediction
    /\ raised = ""
    /\ warnings = {}
    /\ call = NoCall
    /\ work = NoWork
    /\ iterates = [name \in ModelNames |-> <<>>]
    /\ score = NoScore
    /\ running_fits = NoFits

\* y_train_pred_poly = poly_model.predict(X_poly_train), scored next
predict_poly_train_to_score ==
    /\ pc = "poly_predict_train"
    /\ predict("poly_model", "X_poly_train", "score")

NextExact ==
    \/ construct_poly_model
    \/ \E yn \in FitTargets : fit("poly_model", yn)
    \/ predict_poly_train_to_score
    \/ r2_statement
    \/ mse_statement

ExactSpec == ExactInit /\ [][NextExact]_vars

\* ---------------------------------------------------------- the split cells

\* The data cell has run; no split has.
SplitInit ==
    /\ X = linspace
    /\ \E noise \in [1..NSamples -> NoiseValues] : y = target(linspace, noise)
    /\ X_train = <<>>
    /\ X_test = <<>>
    /\ X_poly_train = <<>>
    /\ X_poly_test = <<>>
    /\ X_poly_high_degree_train = <<>>
    /\ X_poly_high_degree_test = <<>>
    /\ y_train = <<>>
    /\ y_test = <<>>
    /\ default_tol = 0
    /\ default_max_iter = 0
    /\ models = [name \in ModelNames |-> Unbound]
    /\ pc = "split"
    /\ cd = Idle
    /\ y_pred = NoPrediction
    /\ raised = ""
    /\ warnings = {}
    /\ call = NoCall
    /\ work = NoWork
    /\ iterates = [name \in ModelNames |-> <<>>]
    /\ score = NoScore
    /\ running_fits = NoFits

\* What a split statement leaves alone besides the arrays it binds.
split_leaves == <<X, y, defaults, score, running_fits, models, pc, cd, y_pred,
                  raised, warnings, work, iterates>>

\* X_train, X_test, y_train, y_test = train_test_split(X, y, ...)
split_X ==
    /\ pc = "split"
    /\ X_train' = train_test_split(X, random_state)[1]
    /\ X_test' = train_test_split(X, random_state)[2]
    /\ y_train' = train_test_split(y, random_state)[1]
    /\ y_test' = train_test_split(y, random_state)[2]
    /\ call' = [op |-> "train_test_split", model |-> "", arg |-> "X"]
    /\ UNCHANGED <<split_leaves, X_poly_train, X_poly_test,
                   X_poly_high_degree_train, X_poly_high_degree_test>>

\* X_poly_train, X_poly_test, y_train, y_test = train_test_split(X_poly, y, ...)
split_X_poly ==
    /\ pc = "split"
    /\ X_poly_train' = train_test_split(PolynomialFeatures(X, degree), random_state)[1]
    /\ X_poly_test' = train_test_split(PolynomialFeatures(X, degree), random_state)[2]
    /\ y_train' = train_test_split(y, random_state)[1]
    /\ y_test' = train_test_split(y, random_state)[2]
    /\ call' = [op |-> "train_test_split", model |-> "", arg |-> "X_poly"]
    /\ UNCHANGED <<split_leaves, X_train, X_test,
                   X_poly_high_degree_train, X_poly_high_degree_test>>

\* The split of the high-degree expansion made with another random_state.
split_X_poly_high_degree_reseeded ==
    /\ pc = "split"
    /\ X_poly_high_degree_train' =
          train_test_split(PolynomialFeatures(X, HighDegree), random_state + 1)[1]
    /\ X_poly_high_degree_test' =
          train_test_split(PolynomialFeatures(X, HighDegree), random_state + 1)[2]
    /\ y_train' = train_test_split(y, random_state + 1)[1]
    /\ y_test' = train_test_split(y, random_state + 1)[2]
    /\ call' = [op |-> "train_test_split", model |-> "", arg |-> "X_poly_high_degree"]
    /\ UNCHANGED <<split_leaves, X_train, X_test, X_poly_train, X_poly_test>>

\* X_poly_high_degree_train, X_poly_high_degree_test, y_train, y_test =
\*     train_test_split(X_poly_high_degree, y, ...)
split_X_poly_high_degree ==
    /\ pc = "split"
    /\ X_poly_high_degree_train' =
          train_test_split(PolynomialFeatures(X, HighDegree), random_state)[1]
    /\ X_poly_high_degree_test' =
          train_test_split(PolynomialFeatures(X, HighDegree), random_state)[2]
    /\ y_train' = train_test_split(y, random_state)[1]
    /\ y_test' = train_test_split(y, random_state)[2]
    /\ call' = [op |-> "train_test_split", model |-> "", arg |-> "X_poly_high_degree"]
    /\ UNCHANGED <<split_leaves, X_train, X_test, X_poly_train, X_poly_test>>

\* The split cells run in any order, any number of times.
NextSplit ==
    \/ split_X
    \/ split_X_poly
    \/ split_X_poly_high_degree

SplitSpec == SplitInit /\ [][NextSplit]_vars

\* ------------------------------------------------------- fits as threads

\* The alphas and tolerances of the estimators whose fits run as threads:
\* accepted by fit, with and without convergence.  The mixing weight is the
\* notebook's.
ThreadAlphaValues == {a \in AlphaValues : a >= 0}

ThreadTolValues == {0, Scale \div 10}

ThreadL1Ratio == Scale \div 2

\* lasso_model and elasticnet_model have been constructed on the data of the
\* split; their two fit calls are about to run as threads.
ConcurrentInit ==
    /\ X = linspace
    /\ \E noise \in [1..NSamples -> NoiseValues] : y = target(linspace, noise)
    /\ X_train = train_test_split(X, random_state)[1]
    /\ X_test = train_test_split(X, random_state)[2]
    /\ X_poly_train = train_test_split(PolynomialFeatures(X, degree), random_state)[1]
    /\ X_poly_test = train_test_split(PolynomialFeatures(X, degree), random_state)[2]
    /\ X_poly_high_degree_train =
          train_test_split(PolynomialFeatures(X, HighDegree), random_state)[1]
    /\ X_poly_high_degree_test =
          train_test_split(PolynomialFeatures(X, HighDegree), random_state)[2]
    /\ y_train = train_test_split(y, random_state)[1]
    /\ y_test = train_test_split(y, random_state)[2]
    /\ default_tol \in ThreadTolValues
    /\ default_max_iter \in 1..MaxIter
    /\ \E alpha_lasso \in {Scale \div 2}, alpha_elasticnet \in ThreadAlphaValues :
          models = [name \in ModelNames |->
                       CASE name = "lasso_model" ->
                                Lasso(alpha_lasso, default_tol, default_max_iter)
                         [] name = "elasticnet_model" ->
                                ElasticNet(alpha_elasticnet, ThreadL1Ratio,
                                           default_tol, default_max_iter)
                         [] OTHER -> Unbound]
    /\ pc = "threads"
    /\ cd = Idle
    /\ y_pred = NoPrediction
    /\ raised = ""
    /\ warnings = {}
    /\ call = NoCall
    /\ work = NoWork
    /\ iterates = [name \in ModelNames |-> <<>>]
    /\ score = NoScore
    /\ running_fits = NoFits

\* A thread enters model.fit(X_poly_train, y_train): the input is validated
\* and centred, the loop state is the thread's own.
thread_fit(name) ==
    LET est == models[name]
        checked == check_X_y(X_poly_train, y_train)
    IN  /\ pc = "threads"
        /\ ~est.fitted
        /\ ~running_fits[name].running
        /\ valid_params(est)
        /\ checked.ok
        /\ call' = [op |-> "fit", model |-> name, arg |-> "y_train"]
        /\ running_fits' = [running_fits EXCEPT ![name] =
                               cd_start(name, est, checked.X, checked.y)]
        /\ X_poly_train' = array_after_fit(X_poly_train, est.copy_X)
        /\ warnings' = warnings \cup alpha_zero_warning(name, est)
        /\ UNCHANGED <<X, y, X_train, X_test, X_poly_test, X_poly_high_degree_train,
                               X_poly_high_degree_test, y_train, y_test, defaults,
                       score, models, pc, cd, y_pred, raised, work, iterates>>

\* One coordinate of the running pass of a thread.
thread_coordinate_update(name) ==
    /\ pc = "threads"
    /\ running_fits[name].running
    /\ running_fits[name].ii <= Len(running_fits[name].w)
    /\ running_fits' = [running_fits EXCEPT ![name] = cd_coordinate(@)]
    /\ UNCHANGED <<data, defaults, score, models, pc, cd, y_pred, raised,
                   warnings, call, work, iterates>>

\* The end of a pass of a thread: its fit returns or its next pass starts.
thread_end_of_pass(name) ==
    LET c == running_fits[name]
    IN  /\ pc = "threads"
        /\ c.running
        /\ c.ii > Len(c.w)
        /\ IF cd_converged(c) \/ cd_exhausted(c)
           THEN /\ models' = [models EXCEPT ![name] =
                                 fit_coordinate_descent(models[name], c)]
                /\ warnings' = warnings \cup
                       (IF cd_exhausted(c)
                        THEN {<<name, "ConvergenceWarning">>} ELSE {})
                /\ running_fits' = [running_fits EXCEPT ![name] = Idle]
           ELSE /\ running_fits' = [running_fits EXCEPT ![name] = cd_next_pass(c)]
                /\ UNCHANGED <<models, warnings>>
        /\ UNCHANGED <<data, defaults, score, pc, cd, y_pred, raised, call,
                       work, iterates>>

NextConcurrent ==
    \/ \E name \in ConcurrentModels : thread_fit(name)
    \/ \E name \in ConcurrentModels : thread_coordinate_update(name)
    \/ \E name \in ConcurrentModels : thread_end_of_pass(name)

ConcurrentSpec == ConcurrentInit /\ [][NextConcurrent]_vars

\* ------------------------------------------------------------------- claims

\* The step that ends a coordinate-descent loop (fit returns in that step).
loop_ends == pc = "cd" /\ pc' # "cd"

\* What a fit that returns normally leaves behind: the model holds the
\* loop's last iterate, no exception, the next statement runs.
returns_model ==
    /\ raised' = ""
    /\ pc' = after_fit(cd.model)
    /\ models'[cd.model].fitted
    /\ models'[cd.model].coef_ = cd.w
    /\ Len(models'[cd.model].coef_) = n_cols(X_poly_train)

not_converged(name) == <<name, "ConvergenceWarning">> \in warnings

\* C1, as stated: a Lasso or ElasticNet fit that reaches max_iter without any
\* pass's largest coefficient change falling below tol returns a model and
\* reports non-convergence, and raises nothing.
C1_ChangeAboveTolAtCap ==
    [][(loop_ends /\ work'.passes = cd.max_iter /\ ~work'.below_tol)
         => (returns_model /\ <<cd.model, "ConvergenceWarning">> \in warnings')]_vars

\* C1: a Lasso or ElasticNet fit that reaches max_iter with the duality gap
\* of its last pass not below the scaled tolerance returns a model holding
\* the coefficients found so far and reports non-convergence; it raises
\* nothing, and a fit that raises has run no pass.
C1_NonConvergenceReturnsModel ==
    /\ [][(loop_ends /\ work'.passes = cd.max_iter /\ work'.gap >= work'.tol)
            => (returns_model /\ <<cd.model, "ConvergenceWarning">> \in warnings')]_vars
    /\ [](call.op = "fit" /\ raised # "" => work.passes = 0)

\* A Lasso fit with a positive tolerance ended at the cap unconverged and
\* the model has since been used for a prediction.
C1_Witness ==
    /\ not_converged("lasso_model")
    /\ default_tol > 0
    /\ models["lasso_model"].fitted
    /\ models["lasso_model"].n_iter_ = default_max_iter
    /\ y_pred.model = "lasso_model"
    /\ Len(y_pred.values) > 0
    /\ raised = ""

\* The estimator of the fit call entered last.
fit_called == call.op = "fit"

called == models[call.model]

\* The call was rejected with exception exc before any fitting step: no
\* coordinate updated, no pass run, no system solved, no model produced.
rejected_unfitted(exc) ==
    /\ raised = exc
    /\ pc = "raised"
    /\ work = NoWork
    /\ cd = Idle
    /\ ~called.fitted
    /\ called.coef_ = NoCoef

\* C2, as stated: a fit whose configuration has lambda < 0, l1_ratio outside
\* [0,1], tol <= 0 or max_iter <= 0 is rejected as an invalid configuration
\* before any fitting step.
C2_InvalidConfigTolAtMostZero ==
    (fit_called /\ (\/ called.alpha < 0
                    \/ IsCoordinateDescent(called) /\
                         (\/ called.l1_ratio < 0 \/ called.l1_ratio > Scale
                          \/ called.tol <= 0
                          \/ called.max_iter <= 0)))
        => rejected_unfitted("InvalidParameterError")

\* C2: a fit whose configuration has lambda < 0, l1_ratio outside [0,1],
\* tol < 0 or max_iter <= 0 is rejected as an invalid configuration before
\* any fitting step, whatever its X and y; a tolerance of exactly 0 is
\* accepted.
C2_InvalidConfigRejectedFirst ==
    /\ (fit_called /\ (\/ called.alpha < 0
                       \/ IsCoordinateDescent(called) /\
                            (\/ called.l1_ratio < 0 \/ called.l1_ratio > Scale
                             \/ called.tol < 0
                             \/ called.max_iter <= 0)))
           => rejected_unfitted("InvalidParameterError")
    /\ (fit_called /\ raised = "InvalidParameterError")
           => (\/ called.alpha < 0
               \/ IsCoordinateDescent(called) /\
                    (\/ called.l1_ratio < 0 \/ called.l1_ratio > Scale
                     \/ called.tol < 0
                     \/ called.max_iter <= 0))

\* An ElasticNet whose only fault is l1_ratio > 1 was rejected, after the
\* Ridge and Lasso fits before it had succeeded.
C2_Witness ==
    /\ fit_called
    /\ call.model = "elasticnet_model"
    /\ called.l1_ratio > Scale
    /\ called.alpha >= 0 /\ called.tol >= 0 /\ called.max_iter >= 1
    /\ raised = "InvalidParameterError"
    /\ models["lasso_model"].fitted

\* A configuration the estimator accepts.
valid_configuration(est) ==
    /\ est.alpha >= 0
    /\ IsCoordinateDescent(est) =>
          /\ est.l1_ratio >= 0 /\ est.l1_ratio <= Scale
          /\ est.tol >= 0
          /\ est.max_iter >= 1

\* The fit call entered last was given a y whose length is not the number
\* of rows of its X.
length_mismatch == fit_called /\ Len(Array(call.arg)) # n_rows(X_poly_train)

\* C3, as stated: under every penalty kind, a fit whose y has not as many
\* entries as X has rows fails with a dimension mismatch and produces no
\* model.
C3_MismatchAlwaysDimensionError ==
    length_mismatch => rejected_unfitted("ValueError")

\* C3: under every penalty kind, a fit whose y has not as many entries as X
\* has rows produces no model and runs no fitting step on any part of X or
\* y; it fails with a dimension mismatch when its configuration is valid and
\* with an invalid-configuration error otherwise.
C3_MismatchRejected ==
    length_mismatch =>
        /\ valid_configuration(called) => rejected_unfitted("ValueError")
        /\ ~valid_configuration(called) => rejected_unfitted("InvalidParameterError")

\* An ElasticNet with a valid configuration was given the held-out targets
\* for the training matrix and rejected, after the other three kinds had
\* been fitted on matching input.
C3_Witness ==
    /\ length_mismatch
    /\ call.model = "elasticnet_model"
    /\ call.arg = "y_test"
    /\ raised = "ValueError"
    /\ \A name \in ModelNames \ {"elasticnet_model"} : models[name].fitted

\* The step that completes a pass of the loop.
pass_completes == pc = "cd" /\ work'.passes = work.passes + 1

\* C4, as stated: the loop stops after a pass exactly when the pass's
\* largest coefficient change is below tol or the number of completed passes
\* equals max_iter.
C4_StopsOnSmallChange ==
    [][pass_completes =>
         (pc' # "cd" <=> (cd.d_w_max < cd.d_w_tol \/ work'.passes = cd.max_iter))]_vars

\* The coordinate updates and pass ends the running loop can still take
\* before its cap stops it.
steps_left == (cd.max_iter - cd.n_iter) * (Len(cd.w) + 1) - cd.ii

\* C4: every Lasso or ElasticNet fit with a valid configuration terminates:
\* its loop can always take its next step, and every step that does not end
\* the loop lowers the number of steps the cap still allows, which is never
\* negative.  The loop stops after a pass exactly when the number of
\* completed passes equals max_iter or the duality gap is below tol * y.y,
\* the gap being computed when all coefficients are zero, or the pass's
\* largest change relative to the largest coefficient is below tol, or the
\* pass is the last one allowed.  The number of passes never exceeds
\* max_iter.
C4_LoopTerminates ==
    /\ [][pc = "cd" => (pc' # "cd" \/ steps_left' < steps_left)]_vars
    /\ [](pc = "cd" => /\ steps_left >= 0
                       /\ cd.ii >= 1 /\ cd.ii <= Len(cd.w) + 1
                       /\ valid_configuration(called)
                       /\ cd.n_iter = work.passes
                       /\ work.passes < cd.max_iter)
    /\ [][pass_completes =>
            (pc' # "cd" <=>
                \/ work'.passes = cd.max_iter
                \/ /\ (cd.w_max = 0 \/ Div(cd.d_w_max, cd.w_max) < cd.d_w_tol)
                   /\ duality_gap(cd) < cd.tol)]_vars
    /\ [](\A name \in ModelNames :
             (models[name].fitted /\ IsCoordinateDescent(models[name]))
                => (models[name].n_iter_ >= 1
                    /\ models[name].n_iter_ <= models[name].max_iter))
    /\ [](fit_called /\ IsCoordinateDescent(called) => work.passes <= called.max_iter)

\* A Lasso loop allowed three passes stopped after its second, whose largest
\* coefficient change was not below tol.
C4_Witness ==
    /\ fit_called
    /\ call.model = "lasso_model"
    /\ called.fitted
    /\ called.max_iter = MaxIter
    /\ work.passes = 2
    /\ called.n_iter_ = 2
    /\ called.tol > 0
    /\ work.d_w_max >= called.tol

\* The arrays as the data cell, the expansion and the split left them.
data_as_split ==
    /\ X = linspace
    /\ X_test = train_test_split(X, random_state)[2]
    /\ X_poly_train = train_test_split(PolynomialFeatures(X, degree), random_state)[1]
    /\ X_poly_test = train_test_split(PolynomialFeatures(X, degree), random_state)[2]
    /\ y_train = train_test_split(y, random_state)[1]
    /\ y_test = train_test_split(y, random_state)[2]

\* C5: no step of a fit call (accepted or rejected, converging or not)
\* changes X or y or any array split from them, so every model fitted on
\* X_poly_train and y_train sees the data the split produced, and a running
\* loop works on centred copies of exactly those arrays.
C5_FitLeavesInputsUnchanged ==
    /\ [][data' = data]_vars
    /\ []data_as_split
    /\ [](cd.running => /\ cd.X = center_X(X_poly_train)
                        /\ cd.y = center_y(Array(call.arg))
                        /\ cd.X_offset = column_means(X_poly_train))

\* Ridge, Lasso and ElasticNet have been fitted one after another on the
\* same arrays, one of them without converging, and the arrays are those of
\* the split.
C5_Witness ==
    /\ pc = "predict"
    /\ \A name \in ModelNames : models[name].fitted
    /\ not_converged("elasticnet_model")
    /\ ~not_converged("lasso_model")
    /\ data_as_split
    /\ X_poly_train # center_X(X_poly_train)

\* C6: the vector a predict call returned has one entry per row of X_new,
\* and entry i is the sum over the columns j of X_new[i][j] * coef_[j], plus
\* intercept_, for a model of any kind.
C6_PredictIsLinear ==
    y_pred.model # "" =>
        LET est == models[y_pred.model]
            Xn == Array(y_pred.X)
        IN  /\ est.fitted
            /\ Len(y_pred.values) = Len(Xn)
            /\ \A i \in 1..Len(Xn) :
                  /\ Len(Xn[i]) = Len(est.coef_)
                  /\ y_pred.values[i] =
                        SumSeq([j \in 1..Len(est.coef_) |-> Mul(Xn[i][j], est.coef_[j])])
                          + est.intercept_

\* A Ridge model with a non-zero intercept and a non-zero coefficient has
\* predicted the held-out rows.
C6_Witness ==
    /\ y_pred.model = "ridge_model"
    /\ y_pred.X = "X_poly_test"
    /\ Len(y_pred.values) = n_test_rows(NSamples)
    /\ models["ridge_model"].intercept_ # 0
    /\ \E j \in 1..Len(models["ridge_model"].coef_) : models["ridge_model"].coef_[j] # 0

\* The predict call entered last.
predict_called == call.op = "predict"

column_mismatch == n_cols(Array(call.arg)) # Len(called.coef_)

\* C7: a predict call whose X_new has not as many columns as the model has
\* coefficients fails with a dimension error and returns no prediction (the
\* last prediction made stays what it was); a call whose columns match
\* returns its prediction.
C7_PredictRejectsColumnMismatch ==
    /\ [](predict_called /\ column_mismatch =>
             /\ raised = "ValueError"
             /\ pc = "raised"
             /\ ~(y_pred.model = call.model /\ y_pred.X = call.arg))
    /\ [](predict_called /\ ~column_mismatch =>
             /\ raised = ""
             /\ y_pred.model = call.model /\ y_pred.X = call.arg)
    /\ [][call'.op = "predict" /\ raised' # "" => y_pred' = y_pred]_vars

\* The Lasso model, fitted on three columns, was given the one-column X_test
\* after an earlier prediction had succeeded.
C7_Witness ==
    /\ predict_called
    /\ call.model = "lasso_model"
    /\ call.arg = "X_test"
    /\ n_cols(X_test) = 1
    /\ Len(called.coef_) = degree + 1
    /\ raised = "ValueError"
    /\ y_pred.model # ""

\* C8: once a model is fitted, no later step (a predict call that succeeds
\* or fails, the construction or fit of another model, a step of another
\* model's loop) changes its coefficients, its intercept or anything else
\* of it.  The vector a predict call returns is determined by the model and
\* the matrix alone, and neither changes, so two predict calls on the same
\* model and the same X_new return the same vector.
C8_FittedModelImmutable ==
    /\ [][\A name \in ModelNames : models[name].fitted =>
            /\ models'[name].coef_ = models[name].coef_
            /\ models'[name].intercept_ = models[name].intercept_
            /\ models'[name] = models[name]]_vars
    /\ [][\A xn \in PredictInputs : Array(xn)' = Array(xn)]_vars
    /\ [](y_pred.model # "" =>
            /\ models[y_pred.model].fitted
            /\ y_pred.values = decision_function(models[y_pred.model], Array(y_pred.X)))

\* All four models are fitted, the last fitted one has predicted, and a
\* predict call on the first one has then failed on a one-column matrix.
C8_Witness ==
    /\ \A name \in ModelNames : models[name].fitted
    /\ y_pred.model = "elasticnet_model"
    /\ y_pred.X = "X_poly_test"
    /\ call = [op |-> "predict", model |-> "poly_model", arg |-> "X_test"]
    /\ raised = "ValueError"

\* A Lasso or ElasticNet fit call has returned its model and no other call
\* has been entered since.
cd_fit_returned == fit_called /\ IsCoordinateDescent(called) /\ called.fitted

\* C9, as stated: a returned Lasso or ElasticNet fit is reported unconverged
\* exactly when its pass count reached max_iter and its last pass's largest
\* coefficient change was not below tol.
C9_UnconvergedIffChangeAtCap ==
    cd_fit_returned =>
        (not_converged(call.model)
            <=> (work.passes = called.max_iter /\ work.d_w_max >= called.tol))

\* C9: a returned Lasso or ElasticNet fit is reported unconverged exactly
\* when its pass count reached max_iter and the duality gap after its last
\* pass was not below tol * y.y; n_iter_ is the number of passes run.  In
\* particular a fit with max_iter = 1 is unconverged exactly when the gap
\* after its single pass is not below the scaled tolerance.
C9_UnconvergedIffGapAtCap ==
    cd_fit_returned =>
        /\ called.n_iter_ = work.passes
        /\ not_converged(call.model)
              <=> (work.passes = called.max_iter /\ work.gap >= work.tol)
        /\ ~not_converged(call.model) => work.gap < work.tol
        /\ called.max_iter = 1 =>
              (not_converged(call.model) <=> work.gap >= work.tol)

\* An ElasticNet with max_iter = 1 and a positive tol returned unconverged:
\* its single pass changed a coefficient by at least tol and left the gap
\* above the scaled tolerance.
C9_Witness ==
    /\ cd_fit_returned
    /\ call.model = "elasticnet_model"
    /\ called.max_iter = 1
    /\ called.tol > 0
    /\ work.passes = 1
    /\ work.d_w_max >= called.tol
    /\ work.gap >= work.tol
    /\ not_converged("elasticnet_model")

\* C10: an ElasticNet with l1_ratio = 1 fitted on the same X and y with the
\* same alpha, tol and max_iter as a Lasso goes through the same sequence of
\* iterates, coordinate update by coordinate update, and ends with the same
\* coefficients, intercept, pass count and gap and the same convergence
\* report.
C10_ElasticNetRatioOneIsLasso ==
    LET lasso == models["lasso_model"]
        enet == models["elasticnet_model"]
    IN  (/\ enet.kind = "ElasticNet"
         /\ enet.l1_ratio = Scale
         /\ enet.alpha = lasso.alpha
         /\ enet.tol = lasso.tol /\ enet.max_iter = lasso.max_iter)
        => /\ \A k \in 1..Len(iterates["elasticnet_model"]) :
                 /\ k <= Len(iterates["lasso_model"])
                 /\ iterates["elasticnet_model"][k] = iterates["lasso_model"][k]
           /\ enet.fitted =>
                 /\ Len(iterates["elasticnet_model"]) = Len(iterates["lasso_model"])
                 /\ enet.coef_ = lasso.coef_
                 /\ enet.intercept_ = lasso.intercept_
                 /\ enet.n_iter_ = lasso.n_iter_
                 /\ enet.dual_gap_ = lasso.dual_gap_
                 /\ not_converged("elasticnet_model") <=> not_converged("lasso_model")

\* A Lasso and an ElasticNet with l1_ratio = 1 and the same positive alpha
\* have both run more than one pass and are both fitted, with a non-zero
\* coefficient.
C10_Witness ==
    /\ models["elasticnet_model"].fitted
    /\ models["elasticnet_model"].l1_ratio = Scale
    /\ models["elasticnet_model"].alpha = models["lasso_model"].alpha
    /\ models["elasticnet_model"].alpha > 0
    /\ models["elasticnet_model"].n_iter_ > 1
    /\ Len(iterates["elasticnet_model"]) > degree + 1
    /\ \E j \in 1..(degree + 1) : models["lasso_model"].coef_[j] # 0

\* C11, as stated: an ElasticNet with l1_ratio = 0 that has converged holds
\* the coefficients and the intercept of the Ridge fitted on the same X and
\* y with the same alpha.
C11_ElasticNetRatioZeroIsRidge ==
    LET ridge == models["ridge_model"]
        enet == models["elasticnet_model"]
    IN  (/\ enet.fitted /\ ridge.fitted
         /\ enet.kind = "ElasticNet" /\ ridge.kind = "Ridge"
         /\ enet.l1_ratio = 0
         /\ enet.alpha = ridge.alpha
         /\ ~not_converged("elasticnet_model"))
        => /\ enet.coef_ = ridge.coef_
           /\ enet.intercept_ = ridge.intercept_

\* The largest absolute correlation of a column of the centred training
\* matrix with the centred training targets.
largest_correlation ==
    MaxAbs([j \in 1..n_cols(X_poly_train) |->
               dot(Column(center_X(X_poly_train), j), center_y(y_train))])

\* The Lasso fit has returned with an alpha whose penalty alpha * n is at or
\* above the largest correlation.
lasso_above_threshold ==
    /\ models["lasso_model"].kind = "Lasso"
    /\ models["lasso_model"].fitted
    /\ models["lasso_model"].alpha * n_rows(X_poly_train) >= largest_correlation

\* C12: for the training data of the run there is a threshold, the largest
\* correlation of a column with y divided by the number of rows, such that
\* a Lasso fitted with any alpha at or above it went through zero iterates
\* only (every coordinate update thresholded to zero), returned a
\* coefficient vector that is zero in every coordinate, and has the mean of
\* y as its intercept.
C12_LassoAllZeroAboveThreshold ==
    lasso_above_threshold =>
        /\ Len(models["lasso_model"].coef_) = n_cols(X_poly_train)
        /\ \A j \in 1..n_cols(X_poly_train) : models["lasso_model"].coef_[j] = 0
        /\ \A k \in 1..Len(iterates["lasso_model"]) :
              \A j \in 1..n_cols(X_poly_train) : iterates["lasso_model"][k][j] = 0
        /\ models["lasso_model"].intercept_ = mean(y_train)

\* A Lasso with alpha = 10 was fitted on data whose unpenalised fit has
\* non-zero coefficients; the alpha is above the threshold, the loop ran a
\* full pass, and the prediction the model made on the held-out rows is the
\* mean of y_train.
C12_Witness ==
    /\ lasso_above_threshold
    /\ models["lasso_model"].alpha = 10 * Scale
    /\ largest_correlation > 0
    /\ \E j \in 1..n_cols(X_poly_train) : models["poly_model"].coef_[j] # 0
    /\ Len(iterates["lasso_model"]) >= n_cols(X_poly_train)
    /\ y_pred.model = "lasso_model"
    /\ y_pred.X = "X_poly_test"
    /\ \A i \in 1..Len(y_pred.values) : y_pred.values[i] = mean(y_train)

\* The squared Euclidean norm of a coefficient vector.
norm2(w) == SumSeq([j \in 1..Len(w) |-> w[j] * w[j]])

\* The penalties Ridge fits are compared at.
RidgeAlphaGrid == {0} \cup RidgeAlphaValues \cup LargeAlphaValues

\* The coefficients Ridge(alpha).fit returns on the training data of the run.
ridge_coef(alpha) == fit_closed_form(Ridge(alpha), X_poly_train, y_train).coef_

\* C13: on the training data of the run, the Ridge fitted by the notebook
\* never has a larger coefficient norm than the unpenalised fit of the
\* polynomial cell; and when the Ridge fit returns, its norm is at most that
\* of a Ridge fit with any smaller penalty and at least that of a Ridge fit
\* with any larger one.
C13_RidgeNormNonIncreasing ==
    /\ (models["ridge_model"].fitted /\ models["ridge_model"].kind = "Ridge")
          => norm2(models["ridge_model"].coef_) <= norm2(models["poly_model"].coef_)
    /\ (fit_called /\ call.model = "ridge_model" /\ called.fitted) =>
          \A alpha \in RidgeAlphaGrid :
             /\ alpha <= called.alpha => norm2(called.coef_) <= norm2(ridge_coef(alpha))
             /\ alpha >= called.alpha => norm2(ridge_coef(alpha)) <= norm2(called.coef_)
             /\ alpha = called.alpha => ridge_coef(alpha) = called.coef_

\* A Ridge with alpha = 100 has been fitted: its coefficients are not all
\* zero and their norm is strictly below that of the unpenalised fit and of
\* the Ridge fit with alpha = 10.
C13_Witness ==
    /\ fit_called /\ call.model = "ridge_model" /\ called.fitted
    /\ called.alpha = 100 * Scale
    /\ norm2(called.coef_) > 0
    /\ norm2(called.coef_) < norm2(ridge_coef(10 * Scale))
    /\ norm2(ridge_coef(10 * Scale)) < norm2(models["poly_model"].coef_)

\* The last scoring call was r2_score(y_true, y_hat) with as many predictions
\* as targets.
r2_called ==
    /\ score.metric = "r2_score"
    /\ Len(Array(score.y_true)) = Len(y_pred.values)

is_constant(v) == \A i, j \in 1..Len(v) : v[i] = v[j]

all_residuals_zero ==
    \A i \in 1..Len(y_pred.values) : Array(score.y_true)[i] = y_pred.values[i]

SS_res == sum_of_squares(residuals(Array(score.y_true), y_pred.values))

SS_tot ==
    LET yt == Array(score.y_true)
    IN  sum_of_squares([i \in 1..Len(yt) |-> yt[i] - mean(yt)])

C15_ConstantTargetNeverFinite ==
    (r2_called /\ is_constant(Array(score.y_true))) =>
        score.outcome \in {"nan", "DegenerateInput"}

\* C15: with a constant target, r2_score returns nan (with a warning) when
\* the target has fewer than two values; with two or more it returns an
\* ordinary finite score: 1 when the sum of the squared residuals is zero (so
\* when y_hat equals y), 0 otherwise.  It raises nothing.
C15_ConstantTargetScore ==
    (r2_called /\ is_constant(Array(score.y_true))) =>
        /\ raised = ""
        /\ Len(y_pred.values) < 2 =>
              /\ score.outcome = "nan"
              /\ <<"r2_score", "UndefinedMetricWarning">> \in warnings
        /\ Len(y_pred.values) >= 2 =>
              /\ score.outcome = "value"
              /\ score.value = (IF SS_res = 0 THEN Scale ELSE 0)
              /\ all_residuals_zero => score.value = Scale

\* r2_score(y_train, .) was called with three equal targets and a prediction
\* equal to them, and returned 1.
C15_Witness ==
    /\ r2_called
    /\ score.y_true = "y_train"
    /\ Len(y_train) = NSamples - n_test_rows(NSamples)
    /\ is_constant(y_train)
    /\ y_train[1] # 0
    /\ all_residuals_zero
    /\ score.outcome = "value"
    /\ score.value = Scale

RECURSIVE cd_run(_)
\* The loop state a coordinate descent ends in when nothing else runs.
cd_run(c) ==
    IF c.ii <= Len(c.w) THEN cd_run(cd_coordinate(c))
    ELSE IF cd_converged(c) \/ cd_exhausted(c) THEN c
    ELSE cd_run(cd_next_pass(c))

\* The arrays of the split, whatever the fits have done to them.
X_poly_train_of_split ==
    train_test_split(PolynomialFeatures(linspace, degree), random_state)[1]

\* What name's fit returns and warns of when it runs alone on the arrays of
\* the split.
fit_alone(name) ==
    LET est == [models[name] EXCEPT !.fitted = FALSE, !.coef_ = NoCoef,
                                    !.intercept_ = 0, !.n_iter_ = 0,
                                    !.dual_gap_ = 0]
        c == cd_run(cd_start(name, est, X_poly_train_of_split, y_train))
    IN  [model |-> fit_coordinate_descent(est, c),
         warnings |-> alpha_zero_warning(name, est) \cup
                      (IF cd_exhausted(c)
                       THEN {<<name, "ConvergenceWarning">>} ELSE {})]

\* C16: whatever the interleaving of the steps of the Lasso and ElasticNet
\* fits run as threads on the same X_poly_train and y_train, a fit that has
\* returned left the model (coefficients, intercept, n_iter_, dual_gap_) and
\* the warnings its run alone leaves.
C16_ConcurrentFitsAsAlone ==
    \A name \in ConcurrentModels :
        models[name].fitted =>
            /\ models[name] = fit_alone(name).model
            /\ {w \in warnings : w[1] = name} = fit_alone(name).warnings

\* The Lasso fit entered after the ElasticNet fit and returned, with
\* coefficients and a non-zero intercept, while the ElasticNet fit, with
\* another alpha, is in its second pass.
C16_Witness ==
    /\ pc = "threads"
    /\ models["lasso_model"].fitted
    /\ call.model = "lasso_model"
    /\ \E j \in 1..n_cols(X_poly_train) : models["lasso_model"].coef_[j] # 0
    /\ models["lasso_model"].intercept_ # mean(y_train)
    /\ models["lasso_model"].n_iter_ >= 2
    /\ running_fits["elasticnet_model"].running
    /\ running_fits["elasticnet_model"].n_iter >= 1
    /\ models["elasticnet_model"].alpha # models["lasso_model"].alpha

\* The coefficients of the polynomial the targets of the run are made of.
coefficients_of_y ==
    CHOOSE abc \in PolynomialCoefficients \X PolynomialCoefficients \X PolynomialCoefficients :
        y = polynomial(X, abc[1], abc[2], abc[3])

\* C17: on the sample points 0..4 the degree-2 expansion has the columns
\* (1, x, x squared); an unpenalised fit to the targets of an exact polynomial
\* a + b*x + c*x**2 returns the weights (0, b, c) and the intercept a (for
\* y = x**2 the weights (0, 0, 1) and the intercept 0); its prediction on the
\* training rows equals the targets, and their r2_score is 1.
C17_OLSRecoversPolynomial ==
    /\ X_poly_train = [i \in 1..5 |->
                          <<Scale, (i - 1) * Scale, (i - 1) * (i - 1) * Scale>>]
    /\ models["poly_model"].fitted =>
          /\ models["poly_model"].coef_ = <<0, coefficients_of_y[2], coefficients_of_y[3]>>
          /\ models["poly_model"].intercept_ = coefficients_of_y[1]
    /\ y_pred.model = "poly_model" =>
          /\ y_pred.values = y_train
          /\ \A i \in 1..5 : y_train[i] - y_pred.values[i] = 0
    /\ (score.metric = "r2_score" /\ score.y_true = "y_train") =>
          /\ score.outcome = "value"
          /\ score.value = Scale

\* y = (0, 1, 4, 9, 16): the fit returned the weights (0, 0, 1), the
\* prediction on the training rows is y, and r2_score(y_train, .) returned 1.
C17_Witness ==
    /\ y_train = <<0, Scale, 4 * Scale, 9 * Scale, 16 * Scale>>
    /\ models["poly_model"].kind = "LinearRegression"
    /\ models["poly_model"].coef_ = <<0, 0, Scale>>
    /\ models["poly_model"].intercept_ = 0
    /\ y_pred.values = y_train
    /\ score.metric = "r2_score"
    /\ score.y_true = "y_train"
    /\ score.value = Scale

\* y - X w without the contribution of the columns in skip, for the centred
\* arrays and the coefficients the loop holds now.
residual_without(c, skip) ==
    [i \in 1..Len(c.y) |->
        c.y[i] - SumSeq([j \in 1..Len(c.w) |->
                            IF j \in skip THEN 0 ELSE Mul(c.w[j], c.X[i][j])])]

\* The value the update of coordinate c.ii writes, computed from the
\* coefficients as they are now: those before c.ii written in this pass,
\* those after it in the pass before.
updated_coordinate(c) ==
    soft_threshold(dot(Column(c.X, c.ii), residual_without(c, {c.ii})),
                   c.alpha, c.norm_cols_X[c.ii] + c.beta)

\* The loop is about to update a coordinate; about to end a pass.
at_coordinate == pc = "cd" /\ cd.ii <= Len(cd.w)

at_end_of_pass == pc = "cd" /\ cd.ii > Len(cd.w)

\* The residual the loop carries is that of its current coefficients, and
\* the coordinates are taken one at a time in the order 1..p, each computed
\* from the current coefficients.
residual_is_current ==
    pc = "cd" => /\ cd.ii \in 1..(Len(cd.w) + 1)
                 /\ cd.R = residual_without(cd, {})

updates_in_order ==
    at_coordinate =>
        /\ pc' = "cd"
        /\ cd'.ii = cd.ii + 1
        /\ cd'.n_iter = cd.n_iter
        /\ cd'.w = IF cd.norm_cols_X[cd.ii] = 0 THEN cd.w
                   ELSE [cd.w EXCEPT ![cd.ii] = updated_coordinate(cd)]

\* C18, as stated: the updates are sequential and in order, and the
\* intercept is updated at the end of every pass.
C18_InterceptUpdatedEachPass ==
    /\ []residual_is_current
    /\ [][/\ updates_in_order
          /\ at_end_of_pass =>
                models'[cd.model].intercept_ =
                    set_intercept(cd.X_offset, cd.y_offset, cd.w)]_vars

\* C18: within each pass the coefficients are updated one at a time in the
\* order 1..p, the update of coordinate j using the values written in this
\* pass for the coordinates before j and those of the pass before for the
\* coordinates after j; the intercept is not touched by a coordinate update
\* or by a pass that is followed by another one: it is set once, when the
\* loop has ended, from the final coefficients.
C18_SequentialUpdatesInterceptAtEnd ==
    /\ []residual_is_current
    /\ [][/\ updates_in_order
          /\ (pc = "cd" /\ pc' = "cd") => models' = models
          /\ (at_end_of_pass /\ pc' = "cd") =>
                /\ cd'.ii = 1
                /\ cd'.n_iter = cd.n_iter + 1
                /\ cd'.w = cd.w
          /\ (at_end_of_pass /\ pc' # "cd") =>
                /\ models'[cd.model].coef_ = cd.w
                /\ models'[cd.model].intercept_ =
                       set_intercept(cd.X_offset, cd.y_offset, cd.w)]_vars

\* A loop in its second pass is about to update the last coordinate: the
\* coordinate before it was written in this pass with another value than in
\* the first pass, and the model's intercept is still unset although the
\* coefficients held now would give a non-zero one.
C18_Witness ==
    /\ at_coordinate
    /\ cd.n_iter = 1
    /\ cd.ii = Len(cd.w)
    /\ Len(iterates[cd.model]) = 2 * Len(cd.w) - 1
    /\ cd.w[cd.ii - 1] # iterates[cd.model][Len(cd.w)][cd.ii - 1]
    /\ cd.w[cd.ii] # 0
    /\ models[cd.model].intercept_ = 0
    /\ set_intercept(cd.X_offset, cd.y_offset, cd.w) # 0

\* The rows of X that the rows of a design matrix come from; x is column
\* x_col of the matrix.
sample_rows(M, x_col) ==
    [i \in 1..Len(M) |-> CHOOSE k \in 1..Len(X) : X[k][1] = M[i][x_col]]

\* The targets of the sample rows of a design matrix.
targets_of(M, x_col) == [i \in 1..Len(M) |-> y[sample_rows(M, x_col)[i]]]

\* The design matrices the notebook passes to fit, predict and the scores
\* together with y_train and y_test, those bound so far.
DesignMatrices ==
    {d \in {[train |-> X_train, test |-> X_test, x_col |-> 1],
            [train |-> X_poly_train, test |-> X_poly_test, x_col |-> 2],
            [train |-> X_poly_high_degree_train,
             test |-> X_poly_high_degree_test, x_col |-> 2]} :
        d.train # <<>>}

\* C19: whichever split cells have run, in whatever order and however often,
\* every design matrix bound so far and the y_train / y_test in scope hold
\* the same sample rows, row by row; training and held-out rows are disjoint
\* and together all rows, a fifth of them (rounded up) held out: 20 and 80
\* of the notebook's 100.
C19_SplitsAgreeOnRows ==
    /\ n_test_rows(n_samples) = 20
    /\ n_samples - n_test_rows(n_samples) = 80
    /\ \A d \in DesignMatrices :
          /\ Len(d.test) = n_test_rows(NSamples)
          /\ Len(d.train) = NSamples - n_test_rows(NSamples)
          /\ y_train = targets_of(d.train, d.x_col)
          /\ y_test = targets_of(d.test, d.x_col)
          /\ LET train_rows == {sample_rows(d.train, d.x_col)[i] : i \in 1..Len(d.train)}
                 test_rows == {sample_rows(d.test, d.x_col)[i] : i \in 1..Len(d.test)}
             IN  /\ train_rows \cap test_rows = {}
                 /\ train_rows \cup test_rows = 1..NSamples
                 /\ Cardinality(train_rows) = Len(d.train)

\* The three split cells have run, the one of X last: y_train and y_test
\* were bound by it, and the matrices of the two expansions, bound by the
\* other cells, hold the rows of these targets; no two training targets are
\* equal, so no other rows would do.
C19_Witness ==
    /\ call = [op |-> "train_test_split", model |-> "", arg |-> "X"]
    /\ Cardinality(DesignMatrices) = 3
    /\ y_train = targets_of(X_poly_high_degree_train, 2)
    /\ y_train = targets_of(X_poly_train, 2)
    /\ y_test = targets_of(X_poly_high_degree_test, 2)
    /\ \A i, j \in 1..Len(y) : i # j => y[i] # y[j]

=============================================================================
